---- MODULE Spec2Model ----
(***************************************************************************)
(* Model of Parallel_Example.ipynb: the column means of a random matrix    *)
(* are computed by a sequential list comprehension (cell "serial"), then   *)
(* by joblib Parallel(n_jobs=2) (cell "par2") and Parallel(n_jobs=10)      *)
(* (cell "par10").  Each cell rebinds column_means and prints a report.    *)
(*                                                                         *)
(* Python lists are modelled as TLA+ sequences: position i+1 of a sequence *)
(* is index i of the list.  A float in [0,1) is modelled as v/Scale, and a *)
(* mean as the reduced fraction <<numerator, denominator>>.                *)
(***************************************************************************)
EXTENDS Integers, Sequences, FiniteSets, TLC

VARIABLES data, cell, status, next, running, acc, slots, column_means,
          stdout, started, hist, overtaken, probe

vars == <<data, cell, status, next, running, acc, slots, column_means,
          stdout, started, hist, overtaken, probe>>

\* ---------------------------------------------------------------- bounds
MaxCols == 11
MaxColsFair == 8
MaxSeed == 1
NRows == 2
Scale == 4

\* ------------------------------------------------------------- constants
\* an empty result slot; a name not bound yet; no call made yet
NoValue == <<>>
Unbound == <<<<-1>>>>
NoProbe == [column |-> 0, result |-> [kind |-> "none"]]
Cells == {"serial", "par2", "par10"}
CellOrder == <<"serial", "par2", "par10">>

\* worker count each cell computes with
NJobs(c) == CASE c = "serial" -> 1
              [] c = "par2" -> 2
              [] c = "par10" -> 10

\* the literal each cell prints as its first report line
Label(c) == CASE c = "serial" -> "1 Processor"
              [] c = "par2" -> "2 Processors"
              [] c = "par10" -> "2 Processors"

NextCell(c) == CASE c = "serial" -> "par2"
                 [] c = "par2" -> "par10"
                 [] c = "par10" -> "end"

\* ------------------------------------------------------------- the data
\* np.random.rand(rows, cols): a pseudo-random generator, a function of
\* its seed; every value lies in [0,1), here 0..Scale-1 over Scale.
Rand(seed, r, c) == (seed * 7 + r * 3 + c * 5 + r * c * seed) % Scale

RandMatrix(seed, rows, cols) ==
    [r \in 1..rows |-> [c \in 1..cols |-> Rand(seed, r, c)]]

\* data.shape[1]
Shape1(d) == Len(d[1])

\* range(n) stopping one short
RangeShort(n) == 0..(n - 2)

\* range(n)
Range(n) == 0..(n - 1)

RECURSIVE GCD(_, _)
GCD(a, b) == IF b = 0 THEN a ELSE GCD(b, a % b)

RECURSIVE SumSeq(_)
SumSeq(s) == IF s = <<>> THEN 0 ELSE Head(s) + SumSeq(Tail(s))

\* ndarray.mean() of a one-dimensional array of v/Scale values
Mean(col) ==
    LET num == SumSeq(col)
        den == Len(col) * Scale
        g == GCD(num, den)
    IN  <<num \div g, den \div g>>

\* data[:, column] without the wrap-around of negative indices
calc_column_mean_NoWrap(d, column) ==
    IF column >= Shape1(d) \/ column < 0
    THEN [kind |-> "IndexError"]
    ELSE [kind |-> "value",
          value |-> Mean([r \in 1..Len(d) |-> d[r][column + 1]])]

\* data[:, column]: numpy accepts -cols <= column < cols, a negative index
\* counting from the last column, and raises IndexError otherwise.
calc_column_mean(d, column) ==
    LET cols == Shape1(d)
    IN  IF column >= cols \/ column < -cols
        THEN [kind |-> "IndexError"]
        ELSE LET k == IF column < 0 THEN column + cols ELSE column
             IN  [kind |-> "value",
                  value |-> Mean([r \in 1..Len(d) |-> d[r][k + 1]])]

\* -------------------------------------------------------- the pool (joblib)
\* a pool that ignores n_jobs
FreeWorkerAlways(run, njobs) == TRUE

\* n_jobs: a task is handed to a worker only while fewer than n_jobs run
FreeWorker(run, njobs) == Cardinality(run) < njobs

\* a pool that appends each result when it arrives: the first empty slot
CollectOnCompletion(res, column, v) ==
    LET k == CHOOSE i \in 1..Len(res) :
                 res[i] = NoValue /\ \A j \in 1..(i - 1) : res[j] # NoValue
    IN  [res EXCEPT ![k] = v]

\* the pool returns results in the order of its input: the result of
\* task `column` goes to list index `column`
Collect(res, column, v) == [res EXCEPT ![column + 1] = v]

\* ------------------------------------------------------------------ Init
\* the state once data is generated, for matrices of up to maxcols columns
InitWith(maxcols) ==
    /\ \E seed \in 0..MaxSeed, cols \in 0..maxcols :
          data = RandMatrix(seed, NRows, cols)
    /\ cell = "serial"
    /\ status = "ready"
    /\ next = 0
    /\ running = {}
    /\ acc = <<>>
    /\ slots = <<>>
    /\ column_means = Unbound
    /\ stdout = <<>>
    /\ started = [c \in Cells |-> <<>>]
    /\ hist = [c \in Cells |-> Unbound]
    /\ overtaken = {}
    /\ probe = NoProbe

Init == InitWith(MaxCols)

\* ---------------------------------------------------------- serial cell
\* start = time.time(); the list comprehension begins with an empty list
SerialStart ==
    /\ cell = "serial" /\ status = "ready"
    /\ status' = "running"
    /\ acc' = <<>>
    /\ next' = 0
    /\ running' = {}
    /\ UNCHANGED <<data, cell, slots, column_means, stdout, started, hist, overtaken, probe>>

\* a loop that starts the next call without waiting for the previous one
SerialCallEager ==
    /\ cell = "serial" /\ status = "running"
    /\ next \in Range(Shape1(data))
    /\ running' = running \cup {next}
    /\ started' = [started EXCEPT !["serial"] = Append(@, next)]
    /\ next' = next + 1
    /\ UNCHANGED <<data, cell, status, acc, slots, column_means, stdout, hist, overtaken, probe>>

\* the comprehension calls calc_column_mean(data, column) for the next column
SerialCall ==
    /\ cell = "serial" /\ status = "running"
    /\ running = {}
    /\ next \in Range(Shape1(data))
    /\ running' = {next}
    /\ started' = [started EXCEPT !["serial"] = Append(@, next)]
    /\ next' = next + 1
    /\ UNCHANGED <<data, cell, status, acc, slots, column_means, stdout, hist, overtaken, probe>>

\* the call returns and its value is appended to the list under construction
SerialReturn ==
    /\ cell = "serial" /\ status = "running"
    /\ \E c \in running :
          LET r == calc_column_mean(data, c)
          IN  /\ r.kind = "value"
              /\ acc' = Append(acc, r.value)
              /\ running' = {}
    /\ UNCHANGED <<data, cell, status, next, slots, column_means, stdout, started, hist, overtaken, probe>>

\* the call raises (IndexError, or an interrupt during time.sleep): the
\* exception leaves the comprehension, the list under construction is
\* dropped and the assignment and the prints of the cell never run
SerialRaise ==
    /\ cell = "serial" /\ status = "running"
    /\ running # {}
    /\ status' = "error"
    /\ running' = {}
    /\ acc' = <<>>
    /\ UNCHANGED <<data, cell, next, slots, column_means, stdout, started, hist, overtaken, probe>>

\* the comprehension is exhausted: column_means = [...]; stop; print
SerialFinish ==
    /\ cell = "serial" /\ status = "running"
    /\ running = {}
    /\ next \notin Range(Shape1(data))
    /\ column_means' = acc
    /\ hist' = [hist EXCEPT !["serial"] = acc]
    /\ stdout' = Append(stdout, Label("serial"))
    /\ cell' = NextCell("serial")
    /\ status' = "ready"
    /\ UNCHANGED <<data, next, running, acc, slots, started, overtaken, probe>>

\* -------------------------------------------------------- parallel cells
\* start = time.time(); Parallel(n_jobs=W)(...) starts with no task handed out
ParStart ==
    /\ cell \in {"par2", "par10"} /\ status = "ready"
    /\ status' = "running"
    /\ slots' = [i \in 1..Shape1(data) |-> NoValue]
    /\ next' = 0
    /\ running' = {}
    /\ UNCHANGED <<data, cell, acc, column_means, stdout, started, hist, overtaken, probe>>

\* a pool that hands out a task only while the task before it is running
ParDispatchChained ==
    /\ cell \in {"par2", "par10"} /\ status = "running"
    /\ next \in Range(Shape1(data))
    /\ FreeWorker(running, NJobs(cell))
    /\ next = 0 \/ (next - 1) \in running
    /\ running' = running \cup {next}
    /\ started' = [started EXCEPT ![cell] = Append(@, next)]
    /\ next' = next + 1
    /\ UNCHANGED <<data, cell, status, acc, slots, column_means, stdout, hist, overtaken, probe>>

\* the next delayed(calc_column_mean)(data, col) of the generator is handed
\* to a free worker, which starts the call
ParDispatch ==
    /\ cell \in {"par2", "par10"} /\ status = "running"
    /\ next \in Range(Shape1(data))
    /\ FreeWorker(running, NJobs(cell))
    /\ running' = running \cup {next}
    /\ started' = [started EXCEPT ![cell] = Append(@, next)]
    /\ next' = next + 1
    /\ UNCHANGED <<data, cell, status, acc, slots, column_means, stdout, hist, overtaken, probe>>

\* a workload that clears the column it has averaged
ParReturnInPlace ==
    /\ cell \in {"par2", "par10"} /\ status = "running"
    /\ \E c \in running :
          LET r == calc_column_mean(data, c)
          IN  /\ r.kind = "value"
              /\ slots' = Collect(slots, c, r.value)
              /\ running' = running \ {c}
              /\ overtaken' = IF \E d \in running : d < c
                               THEN overtaken \cup {cell} ELSE overtaken
              /\ data' = [i \in 1..Len(data) |-> [data[i] EXCEPT ![c + 1] = 0]]
    /\ UNCHANGED <<cell, status, next, acc, column_means, stdout, started, hist, probe>>

\* some worker finishes its call, in any order
ParReturn ==
    /\ cell \in {"par2", "par10"} /\ status = "running"
    /\ \E c \in running :
          LET r == calc_column_mean(data, c)
          IN  /\ r.kind = "value"
              /\ slots' = Collect(slots, c, r.value)
              /\ running' = running \ {c}
              /\ overtaken' = IF \E d \in running : d < c
                               THEN overtaken \cup {cell} ELSE overtaken
    /\ UNCHANGED <<data, cell, status, next, acc, column_means, stdout, started, hist, probe>>

\* a pool that swallows the failure and hands back what it has collected
ParRaisePartial ==
    /\ cell \in {"par2", "par10"} /\ status = "running"
    /\ running # {}
    /\ status' = "error"
    /\ running' = {}
    /\ column_means' = slots
    /\ slots' = <<>>
    /\ UNCHANGED <<data, cell, next, acc, stdout, started, hist, overtaken, probe>>

\* some worker's call raises: the pool stops its workers and re-raises in
\* the caller; the results collected so far are dropped
ParRaise ==
    /\ cell \in {"par2", "par10"} /\ status = "running"
    /\ running # {}
    /\ status' = "error"
    /\ running' = {}
    /\ slots' = <<>>
    /\ UNCHANGED <<data, cell, next, acc, column_means, stdout, started, hist, overtaken, probe>>

\* every task has returned: column_means = <the list>; stop; print
ParFinish ==
    /\ cell \in {"par2", "par10"} /\ status = "running"
    /\ running = {}
    /\ next \notin Range(Shape1(data))
    /\ column_means' = slots
    /\ hist' = [hist EXCEPT ![cell] = slots]
    /\ stdout' = Append(stdout, Label(cell))
    /\ cell' = NextCell(cell)
    /\ status' = "ready"
    /\ UNCHANGED <<data, next, running, acc, slots, started, overtaken, probe>>

Next ==
    \/ SerialStart
    \/ SerialCall
    \/ SerialReturn
    \/ SerialRaise
    \/ SerialFinish
    \/ ParStart
    \/ ParDispatch
    \/ ParReturn
    \/ ParRaise
    \/ ParFinish

Spec == Init /\ [][Next]_vars

\* every step of the notebook but a raising call
Progress ==
    \/ SerialStart \/ SerialCall \/ SerialReturn \/ SerialFinish
    \/ ParStart \/ ParDispatch \/ ParReturn \/ ParFinish

\* the interpreter and the workers keep running: while some step other than
\* a failure is possible, one is eventually taken
InitFair == InitWith(MaxColsFair)

FairSpec == InitFair /\ [][Next]_vars /\ WF_vars(Progress)

\* ------------------------------------------- calc_column_mean on its own
ProbeColumns == (-(MaxCols + 2))..(MaxCols + 2)

\* one call calc_column_mean(data, column) with an arbitrary integer index
Probe ==
    /\ \E column \in ProbeColumns :
          probe' = [column |-> column, result |-> calc_column_mean(data, column)]
    /\ UNCHANGED <<data, cell, status, next, running, acc, slots, column_means,
                   stdout, started, hist, overtaken>>

NextCalc == Probe

SpecCalc == Init /\ [][NextCalc]_vars

\* ================================================================ claims
ParCells == {"par2", "par10"}

\* the list whose index i holds the mean of column i
ColumnMeansOf(d) ==
    [i \in 1..Shape1(d) |-> calc_column_mean(d, i - 1).value]

\* every column index of d occurs exactly once in the call log s
ExactlyOnce(s, d) ==
    /\ Len(s) = Shape1(d)
    /\ \A col \in Range(Shape1(d)) : \E i \in 1..Len(s) : s[i] = col

\* C1: whatever the order in which the workers finish, the list a parallel
\* cell assigns equals the list the sequential cell assigned, and its
\* index i holds the mean of column i.
C1_ParallelEqualsSerial ==
    \A c \in ParCells :
        hist[c] # Unbound =>
            /\ hist[c] = hist["serial"]
            /\ hist[c] = ColumnMeansOf(data)

\* a 2-worker run in which a later column finished before an earlier one
\* and the column means are not all the same
C1_Witness ==
    /\ hist["par2"] # Unbound
    /\ "par2" \in overtaken
    /\ \E i, j \in 1..Len(hist["par2"]) : hist["par2"][i] # hist["par2"][j]

\* C2: every cell ends with a list of exactly C computed elements; with no
\* column no call is made, so nothing raises and the list is empty.
C2_ResultLength ==
    /\ \A c \in Cells :
          hist[c] # Unbound =>
              /\ Len(hist[c]) = Shape1(data)
              /\ \A i \in 1..Len(hist[c]) : hist[c][i] # NoValue
    /\ Shape1(data) = 0 => status # "error"

\* one column, ten workers
C2_Witness ==
    /\ Shape1(data) = 1
    /\ hist["par10"] # Unbound
    /\ Len(hist["par10"]) = 1

\* the report line for a run with n workers
ExpectedLabel(n) ==
    ToString(n) \o (IF n = 1 THEN " Processor" ELSE " Processors")

\* C3: the worker count each cell prints is the worker count it computed
\* with.
C3_ReportedWorkerCount ==
    \A i \in 1..Len(stdout) : stdout[i] = ExpectedLabel(NJobs(CellOrder[i]))

\* C4 (as stated): calc_column_mean raises for every index outside
\* [0, C), negative ones included, and returns a mean inside.
C4_BoundsErrorOutsideRange ==
    probe # NoProbe =>
        (probe.result.kind = "IndexError"
            <=> probe.column \notin Range(Shape1(data)))

\* C4 (amended): calc_column_mean raises exactly for the indices outside
\* [-C, C); for an index in [-C, 0) it returns what it returns for the
\* column C + index.
C4_BoundsErrorOutsideWrappedRange ==
    probe # NoProbe =>
        LET cols == Shape1(data)
        IN  /\ probe.result.kind = "IndexError"
                  <=> probe.column \notin (-cols)..(cols - 1)
            /\ probe.column \in (-cols)..(-1) =>
                  probe.result = calc_column_mean(data, probe.column + cols)

\* a negative index for which a mean came back
C4_Witness ==
    /\ probe # NoProbe
    /\ probe.column = -1
    /\ Shape1(data) >= 2
    /\ probe.result.kind = "value"

\* what column_means is bound to before the cell c assigns it
BoundBefore(c) ==
    CASE c = "serial" -> Unbound
      [] c = "par2" -> hist["serial"]
      [] c = "par10" -> hist["par2"]

\* the number of cells that ran before the cell c
CellsBefore(c) ==
    CASE c = "serial" -> 0
      [] c = "par2" -> 1
      [] c = "par10" -> 2

\* C5: when a call raises, the cell assigns nothing and reports nothing
\* (column_means is what it was before the cell, never a partial list), no
\* column is called a second time, and nothing runs after the failure.
C5_FailFast ==
    /\ [](status = "error" =>
            /\ hist[cell] = Unbound
            /\ column_means = BoundBefore(cell)
            /\ Len(stdout) = CellsBefore(cell)
            /\ \A i, j \in 1..Len(started[cell]) :
                  started[cell][i] = started[cell][j] => i = j)
    /\ [][status # "error"]_vars

\* a 2-worker run that failed after some column had already returned
C5_Witness ==
    /\ status = "error"
    /\ cell = "par2"
    /\ Len(started["par2"]) >= 3

\* C6: no step changes the matrix.
C6_DataImmutable == [][data' = data]_vars

\* all three cells have run over a matrix of several columns
C6_Witness ==
    /\ cell = "end"
    /\ Shape1(data) >= 2
    /\ hist["par10"] # Unbound

\* C8: a parallel cell never has more calls in progress than its n_jobs.
C8_AtMostNJobsRunning ==
    cell \in ParCells => Cardinality(running) <= NJobs(cell)

\* ten calls in progress and a column still waiting for a worker
C8_Witness ==
    /\ cell = "par10"
    /\ Cardinality(running) = 10
    /\ next \in Range(Shape1(data))

\* C9: the sequential cell calls the columns 0, 1, 2, ... in this order,
\* each once, one call at a time; the call in progress is for the column
\* right after the results appended so far, which are in column order.
C9_SerialInOrder ==
    /\ \A i \in 1..Len(started["serial"]) : started["serial"][i] = i - 1
    /\ (cell = "serial" /\ status = "running") =>
          /\ Cardinality(running) <= 1
          /\ running = {} => Len(acc) = Len(started["serial"])
          /\ running # {} =>
                /\ running = {Len(acc)}
                /\ Len(started["serial"]) = Len(acc) + 1
          /\ \A i \in 1..Len(acc) : acc[i] = calc_column_mean(data, i - 1).value
    /\ hist["serial"] # Unbound => ExactlyOnce(started["serial"], data)

\* the third call in progress after two results
C9_Witness ==
    /\ cell = "serial"
    /\ running = {2}
    /\ Len(acc) = 2

\* C10: unless a call raises, the notebook runs to its end, and a cell that
\* has completed has called every column exactly once.
C10_CompletesExactlyOnce ==
    /\ <>(cell = "end" \/ status = "error")
    /\ [](\A c \in Cells : hist[c] # Unbound => ExactlyOnce(started[c], data))

\* all cells completed over more columns than the small pool has workers
C10_Witness ==
    /\ cell = "end"
    /\ Shape1(data) >= 3
    /\ \A c \in Cells : ExactlyOnce(started[c], data)

====
